---- MODULE Spec2Model ----
(***************************************************************************)
(* A model of src/app.py: the subtitle parser (parse_srt_time, parse_srt), *)
(* the duration reconciler (remove_silence, match_target_duration) and the *)
(* button handler that fetches speech per batch, reassembles it in order   *)
(* and flushes ten-minute parts.                                           *)
(*                                                                         *)
(* Audio.  A pydub AudioSegment is modelled at the resolution the code     *)
(* uses, one sample per millisecond, each sample either loud (full scale)  *)
(* or digital silence: [samples |-> <<loud?, ...>>, pad |-> n] is the      *)
(* samples followed by n ms of digital silence.  A slice's dBFS exceeds    *)
(* the -50 dBFS threshold exactly when it holds a loud sample.             *)
(*                                                                         *)
(* Time.  All durations are integer milliseconds.  The code computes them  *)
(* as floats (timedelta.total_seconds() * 1000) and truncates with int();  *)
(* the timestamps used below convert exactly.                              *)
(***************************************************************************)
EXTENDS Integers, Sequences, FiniteSets, TLC

VARIABLES
    \* ---- the button handler (src/app.py 151-268) ----
    pc,                  \* position of the controlling flow
    uploaded_files,      \* the uploaded documents (each as its cues)
    voice_id_blank,      \* whether voice_id.strip() is empty
    max_workers,         \* the sidebar slider
    file_idx,            \* 1-based position in uploaded_files
    parsed_segments,     \* parse_srt's result for the current file
    i,                   \* 0-based start of the current batch
    inflight,            \* batch positions whose synthesis call is running
    returned,            \* batch position -> result of a finished call
    collected,           \* how many results executor.map has yielded
    batch_results,       \* the dict of line 203, a set of <<idx, bytes>>
    seg_k,               \* 1-based position of the reassembly loop in the batch
    current_chunk_audio, \* the pieces appended to the current chunk
    parts_buffer,        \* the finished parts of the current file
    last_segment_end_ms,
    part_number,
    generated_zips,      \* st.session_state.generated_zips
    errors,              \* the st.error messages shown
    \* ---- history of the run, for stating properties ----
    completion_order,    \* the batch's positions, in the order their calls ended
    assembled,           \* one record per iteration of the reassembly loop:
                         \*   pos: the document position of the segment taken
                         \*   fetched: whether the segment's own call returned audio
                         \*   gap: silence_gap; placed: whether audio_data held audio
                         \*   src: the call whose content audio_data was
                         \*   clip, clip_ms: synced_audio and its length, empty
                         \*     and 0 if nothing was placed
                         \*   cursor: last_segment_end_ms before the iteration
                         \*   before, peak, after: len(current_chunk_audio) before
                         \*     the iteration, at the check of line 229, after it
                         \*   parts, part_number: len(parts_buffer) and part_number
                         \*     after it
    \* ---- a single call of a pure function ----
    call,                \* the arguments
    ret                  \* the result

run_vars ==
    <<pc, uploaded_files, voice_id_blank, max_workers, file_idx, parsed_segments,
      i, inflight, returned, collected, batch_results, seg_k,
      current_chunk_audio, parts_buffer, last_segment_end_ms, part_number,
      generated_zips, errors, completion_order, assembled>>

fn_vars ==
    <<call, ret>>

vars ==
    <<run_vars, fn_vars>>

(***************************************************************************)
(* Bounds of the model.                                                    *)
(***************************************************************************)
\* a clip under test is made of at most MaxBlocks blocks ...
MaxBlocks ==
    5
\* ... of BlockMs milliseconds each, every block loud or silent throughout
BlockMs ==
    5
\* targets of match_target_duration under test: 0..MaxTargetMs
MaxTargetMs ==
    30

Min(a, b) ==
    IF a <= b THEN a ELSE b

Max(a, b) ==
    IF a >= b THEN a ELSE b

(***************************************************************************)
(* pydub.AudioSegment                                                      *)
(***************************************************************************)
\* AudioSegment.silent(duration=n); AudioSegment.empty() is silent(0)
silent(n) ==
    [samples |-> <<>>, pad |-> n]

\* len(audio)
AudioLen(a) ==
    Len(a.samples) + a.pad

\* whether the sample of millisecond p (0-based) is loud
Sample(a, p) ==
    p < Len(a.samples) /\ a.samples[p + 1]

\* audio[lo:hi], 0 <= lo; both ends are clamped to the length as pydub does
Slice(a, lo, hi) ==
    LET n == AudioLen(a)
        l == Min(lo, n)
        h == Max(l, Min(hi, n))
        k == Len(a.samples)
    IN  [samples |-> SubSeq(a.samples, l + 1, Min(h, k)),
         pad |-> Max(0, h - Max(l, k))]

\* a + b
Concat(a, b) ==
    IF b.samples = <<>>
    THEN [samples |-> a.samples, pad |-> a.pad + b.pad]
    ELSE [samples |-> a.samples \o [p \in 1..a.pad |-> FALSE] \o b.samples,
          pad |-> b.pad]

\* two segments hold the same audio
SameAudio(a, b) ==
    /\ AudioLen(a) = AudioLen(b)
    /\ \A p \in 0..(AudioLen(a) - 1) : Sample(a, p) = Sample(b, p)

\* the step of both scans of remove_silence
scan_step_ms ==
    10

\* audio[i:i+10].dBFS > silence_thresh
WindowLoud(a, p) ==
    \E q \in p..(Min(p + scan_step_ms, AudioLen(a)) - 1) : Sample(a, q)

\* range(0, n, 10)
ForwardRange(n) ==
    {p \in 0..(n - 1) : p % scan_step_ms = 0}

\* range(n - 10, 0, -10)
BackwardRange(n) ==
    {p \in 1..(n - scan_step_ms) : (n - scan_step_ms - p) % scan_step_ms = 0}

SetMin(S) ==
    CHOOSE x \in S : \A y \in S : x <= y

SetMax(S) ==
    CHOOSE x \in S : \A y \in S : x >= y

remove_silence(audio_segment) ==
    IF AudioLen(audio_segment) = 0 THEN audio_segment
    ELSE
    LET n == AudioLen(audio_segment)
        fwd == {p \in ForwardRange(n) : WindowLoud(audio_segment, p)}
        bwd == {p \in BackwardRange(n) : WindowLoud(audio_segment, p)}
        start_trim == IF fwd = {} THEN 0 ELSE SetMin(fwd)
        end_trim == IF bwd = {} THEN n ELSE SetMax(bwd) + scan_step_ms
    IN  IF start_trim >= end_trim THEN audio_segment
        ELSE Slice(audio_segment, start_trim, end_trim)

(***************************************************************************)
(* AudioSegment.speedup is pydub's, not this repository's: its outcome is  *)
(* an input of the model.  It either raises or returns a clip of some      *)
(* length up to the input's; only the length of the result is read by      *)
(* match_target_duration, so the result is modelled as a prefix.           *)
(***************************************************************************)
SpeedupOutcomes(audio) ==
    {[raises |-> TRUE, len |-> 0]}
        \cup {[raises |-> FALSE, len |-> r] : r \in 0..AudioLen(audio)}

speedup(audio, outcome) ==
    Slice(audio, 0, outcome.len)

Returned(a) ==
    [kind |-> "ok", audio |-> a]

Raised(exc) ==
    [kind |-> exc, audio |-> silent(0)]

\* a compression branch that keeps whatever length it is left with
CompressUntruncated(audio_segment, target_duration_ms, outcome) ==
    IF outcome.raises THEN audio_segment ELSE speedup(audio_segment, outcome)

\* lines 98-106 with the division of line 99 done: the compression branch
Compress(audio_segment, target_duration_ms, outcome) ==
    LET refined_audio == IF outcome.raises THEN audio_segment
                         ELSE speedup(audio_segment, outcome)
    IN  IF AudioLen(refined_audio) > target_duration_ms
        THEN Slice(refined_audio, 0, target_duration_ms)
        ELSE refined_audio

\* target_duration_ms >= 0
match_target_duration(audio0, target_duration_ms, outcome) ==
    LET audio_segment == IF AudioLen(audio0) > 0 THEN remove_silence(audio0)
                         ELSE audio0
        current_duration_ms == AudioLen(audio_segment)
    IN  IF current_duration_ms = 0
        THEN Returned(silent(target_duration_ms))
        ELSE IF current_duration_ms > target_duration_ms
        THEN IF target_duration_ms = 0
             THEN Raised("ZeroDivisionError")
             ELSE Returned(Compress(audio_segment, target_duration_ms, outcome))
        ELSE Returned(Concat(audio_segment,
                             silent(target_duration_ms - current_duration_ms)))

\* the speedup outcomes match_target_duration can meet on this input
OutcomesFor(audio0) ==
    SpeedupOutcomes(IF AudioLen(audio0) > 0 THEN remove_silence(audio0) ELSE audio0)

(***************************************************************************)
(* The clips under test.                                                   *)
(***************************************************************************)
RECURSIVE FromBlocks(_)
FromBlocks(bs) ==
    IF bs = <<>> THEN <<>>
    ELSE [p \in 1..BlockMs |-> Head(bs)] \o FromBlocks(Tail(bs))

BlockPatterns ==
    UNION {[1..n -> BOOLEAN] : n \in 0..MaxBlocks}

TestClips ==
    {[samples |-> FromBlocks(bs), pad |-> 0] : bs \in BlockPatterns}

NoCall ==
    [fn |-> "none", audio |-> silent(0), target |-> 0]

NoRet ==
    [kind |-> "pending", audio |-> silent(0)]

(***************************************************************************)
(* SpecRec: one call of remove_silence or of match_target_duration on a    *)
(* clip and a target drawn from the bounded sets above.                    *)
(***************************************************************************)
RunIdle ==
    /\ pc = "no run"
    /\ uploaded_files = <<>>
    /\ voice_id_blank = FALSE
    /\ max_workers = 1
    /\ file_idx = 0
    /\ parsed_segments = <<>>
    /\ i = 0
    /\ inflight = {}
    /\ returned = <<>>
    /\ collected = 0
    /\ batch_results = {}
    /\ seg_k = 0
    /\ current_chunk_audio = <<>>
    /\ parts_buffer = <<>>
    /\ last_segment_end_ms = 0
    /\ part_number = 1
    /\ generated_zips = <<>>
    /\ errors = <<>>
    /\ completion_order = <<>>
    /\ assembled = <<>>

InitRec ==
    /\ RunIdle
    /\ call \in [fn : {"none"}, audio : TestClips, target : 0..MaxTargetMs]
    /\ ret = NoRet

CallRemoveSilence ==
    /\ call.fn = "none"
    /\ call' = [call EXCEPT !.fn = "remove_silence"]
    /\ ret' = Returned(remove_silence(call.audio))
    /\ UNCHANGED run_vars

\* the call keeps the outcome speedup had, or would have had, in it
CallMatchTargetDuration ==
    /\ call.fn = "none"
    /\ \E outcome \in OutcomesFor(call.audio) :
           /\ ret' = match_target_duration(call.audio, call.target, outcome)
           /\ call' = [fn |-> "match_target_duration", audio |-> call.audio,
                       target |-> call.target, outcome |-> outcome]
    /\ UNCHANGED run_vars

NextRec ==
    \/ CallRemoveSilence
    \/ CallMatchTargetDuration

SpecRec ==
    InitRec /\ [][NextRec]_vars

\* C1: every call of match_target_duration returns, and returns a clip whose
\* length is exactly the target, whatever the clip and whatever the outcome
\* of the time-compression step.
C1_ReturnsTargetLength ==
    call.fn = "match_target_duration"
        => ret.kind = "ok" /\ AudioLen(ret.audio) = call.target

\* the two ways C1 fails, each reachable on its own
C1_RaisesOnZeroTarget ==
    ~(call.fn = "match_target_duration" /\ ret.kind = "ZeroDivisionError")

C1_ShortAfterCompression ==
    ~(/\ call.fn = "match_target_duration"
      /\ ret.kind = "ok"
      /\ AudioLen(ret.audio) < call.target)

\* the clip holds a sample over the threshold
HasLoudSample(a) ==
    \E p \in 0..(AudioLen(a) - 1) : Sample(a, p)

\* C12: a clip that is not pure silence and whose length equals the target
\* comes back unchanged, the same samples at the same positions, also when it
\* begins or ends with near-silence.
C12_ExactMatchUnchanged ==
    (/\ call.fn = "match_target_duration"
     /\ AudioLen(call.audio) = call.target
     /\ HasLoudSample(call.audio))
        => ret.kind = "ok" /\ SameAudio(ret.audio, call.audio)

\* C12 does hold of the clips remove_silence leaves as they are
C12_WhenNothingToTrim ==
    (/\ call.fn = "match_target_duration"
     /\ AudioLen(call.audio) = call.target
     /\ HasLoudSample(call.audio)
     /\ remove_silence(call.audio) = call.audio)
        => ret.kind = "ok" /\ SameAudio(ret.audio, call.audio)

\* the case of C17: the trimmed clip is longer than a positive target and
\* speedup raised
CompressionFailed ==
    /\ call.fn = "match_target_duration"
    /\ call.outcome.raises
    /\ call.target > 0
    /\ AudioLen(remove_silence(call.audio)) > call.target

\* C17: when the trimmed clip is longer than a positive target and speedup
\* raises, match_target_duration returns all the same, and returns the
\* trimmed clip cut to exactly the target length.
C17_FallbackOnCompressionFailure ==
    CompressionFailed
        => /\ ret.kind = "ok"
           /\ AudioLen(ret.audio) = call.target
           /\ ret.audio = Slice(remove_silence(call.audio), 0, call.target)

\* speedup raised on a clip that had been trimmed at its head, and the call
\* returned
C17_Witness ==
    /\ CompressionFailed
    /\ ret.kind = "ok"
    /\ AudioLen(remove_silence(call.audio)) < AudioLen(call.audio)

\* the steps of a forward scan that are over the threshold
LoudForward(a) ==
    {p \in ForwardRange(AudioLen(a)) : WindowLoud(a, p)}

\* the ends of the 10 ms steps counted back from the end of the clip, the
\* step that reaches the head of the clip among them, that are over the
\* threshold
LoudBackwardEnds(a) ==
    {e \in 1..AudioLen(a) :
        /\ (AudioLen(a) - e) % scan_step_ms = 0
        /\ \E q \in Max(0, e - scan_step_ms)..(e - 1) : Sample(a, q)}

\* C18: of a clip with a step over the threshold, remove_silence returns the
\* range from the first such step of the forward scan to the end of the last
\* such step of the backward scan, so silence at the tail goes as silence at
\* the head does; a clip without such a step comes back unchanged; the result
\* of a non-empty clip is never empty.
C18_TrimsBothEnds ==
    (call.fn = "remove_silence" /\ AudioLen(call.audio) > 0)
        => /\ ret.kind = "ok"
           /\ AudioLen(ret.audio) > 0
           /\ IF LoudForward(call.audio) = {}
              THEN ret.audio = call.audio
              ELSE ret.audio = Slice(call.audio, SetMin(LoudForward(call.audio)),
                                     SetMax(LoudBackwardEnds(call.audio)))

\* what does hold of remove_silence: silence at the head is removed, a clip
\* without a loud step is unchanged, the result is never empty
C18_TrimsHead ==
    (call.fn = "remove_silence" /\ AudioLen(call.audio) > 0)
        => /\ AudioLen(ret.audio) > 0
           /\ IF LoudForward(call.audio) = {}
              THEN ret.audio = call.audio
              ELSE \E e \in 1..AudioLen(call.audio) :
                       ret.audio = Slice(call.audio,
                                         SetMin(LoudForward(call.audio)), e)

(***************************************************************************)
(* Documents.  A document is a sequence of tokens: a digit, another        *)
(* character, a line feed, a carriage return, the separator " --> ", or a  *)
(* timestamp HH:MM:SS,mmm read as one token carrying its four digit        *)
(* groups.  Timestamps stand only on the timing line of a cue.             *)
(***************************************************************************)
NoTs ==
    <<0, 0, 0, 0>>

Dg(c) ==
    [t |-> "d", c |-> c, ts |-> NoTs]

Ch(c) ==
    [t |-> "c", c |-> c, ts |-> NoTs]

NL ==
    [t |-> "nl", c |-> "\n", ts |-> NoTs]

CR ==
    [t |-> "cr", c |-> "\r", ts |-> NoTs]

Arrow ==
    [t |-> "arrow", c |-> " --> ", ts |-> NoTs]

Ts(h, m, s, ms) ==
    [t |-> "ts", c |-> "", ts |-> <<h, m, s, ms>>]

IsTok(s, p, kind) ==
    p <= Len(s) /\ s[p].t = kind

(***************************************************************************)
(* parse_srt_time.  strptime("%H:%M:%S.%f") accepts hours 0..23 and        *)
(* minutes 0..59; it reads seconds 60 and 61 but datetime refuses them;    *)
(* everything else is a ValueError.  The value is total_seconds() * 1000   *)
(* of the timedelta, which holds whole seconds and microseconds.           *)
(***************************************************************************)
strptime_accepts(ts) ==
    ts[1] <= 23 /\ ts[2] <= 59 /\ ts[3] <= 59

parse_srt_time(ts) ==
    IF strptime_accepts(ts)
    THEN LET seconds == ts[1] * 3600 + ts[2] * 60 + ts[3]
             microseconds == ts[4] * 1000
         IN  [kind |-> "ok", ms |-> seconds * 1000 + microseconds \div 1000]
    ELSE [kind |-> "ValueError", ms |-> 0]

(***************************************************************************)
(* parse_srt                                                               *)
(***************************************************************************)
\* srt_content.replace("\r\n", "\n")
RECURSIVE ReplaceCRLF(_)
ReplaceCRLF(s) ==
    IF s = <<>> THEN <<>>
    ELSE IF Head(s).t = "cr" /\ IsTok(s, 2, "nl") THEN ReplaceCRLF(Tail(s))
    ELSE <<Head(s)>> \o ReplaceCRLF(Tail(s))

\* the last position of the longest run of digits that starts at p (p - 1 if none)
RECURSIVE DigitRunEnd(_, _)
DigitRunEnd(s, p) ==
    IF IsTok(s, p, "d") THEN DigitRunEnd(s, p + 1) ELSE p - 1

\* the negative lookahead (?!\d+\n) fails at p
DigitsThenNewline(s, p) ==
    LET e == DigitRunEnd(s, p) IN e >= p /\ IsTok(s, e + 1, "nl")

\* ((?:(?!\d+\n).)*) from q, with DOTALL: the last position it takes
RECURSIVE TextEnd(_, _)
TextEnd(s, q) ==
    IF q <= Len(s) /\ ~DigitsThenNewline(s, q) THEN TextEnd(s, q + 1) ELSE q - 1

\* the pattern of line 24 tried at p
MatchAt(s, p) ==
    LET e == DigitRunEnd(s, p)
        ok == /\ e >= p
              /\ IsTok(s, e + 1, "nl")
              /\ IsTok(s, e + 2, "ts")
              /\ IsTok(s, e + 3, "arrow")
              /\ IsTok(s, e + 4, "ts")
              /\ IsTok(s, e + 5, "nl")
        te == TextEnd(s, e + 6)
    IN  IF ok
        THEN [found |-> TRUE, idx |-> SubSeq(s, p, e), start |-> s[e + 2].ts,
              end |-> s[e + 4].ts, text |-> SubSeq(s, e + 6, te), next |-> te + 1]
        ELSE [found |-> FALSE, idx |-> <<>>, start |-> NoTs, end |-> NoTs,
              text |-> <<>>, next |-> p + 1]

\* pattern.findall from p: the matches, left to right, not overlapping
RECURSIVE findall(_, _)
findall(s, p) ==
    IF p > Len(s) THEN <<>>
    ELSE LET m == MatchAt(s, p)
         IN  IF m.found THEN <<m>> \o findall(s, m.next) ELSE findall(s, p + 1)

DigitValue(c) ==
    CASE c = "0" -> 0 [] c = "1" -> 1 [] c = "2" -> 2 [] c = "3" -> 3
      [] c = "4" -> 4 [] c = "5" -> 5 [] c = "6" -> 6 [] c = "7" -> 7
      [] c = "8" -> 8 [] c = "9" -> 9

\* int(idx)
RECURSIVE int(_)
int(ds) ==
    IF ds = <<>> THEN 0
    ELSE int(SubSeq(ds, 1, Len(ds) - 1)) * 10 + DigitValue(ds[Len(ds)].c)

IsSpace(tok) ==
    tok.t \in {"nl", "cr"} \/ (tok.t = "c" /\ tok.c = " ")

\* text.strip()
RECURSIVE strip(_)
strip(s) ==
    IF s = <<>> THEN s
    ELSE IF IsSpace(Head(s)) THEN strip(Tail(s))
    ELSE IF IsSpace(s[Len(s)]) THEN strip(SubSeq(s, 1, Len(s) - 1))
    ELSE s

\* .replace('\n', ' '), and the text as its characters
CleanText(text) ==
    LET t == strip(text)
    IN  [p \in 1..Len(t) |-> IF t[p].t = "nl" THEN " " ELSE t[p].c]

\* the dictionary of lines 33-39 for one match; ValueError if a time is refused
Segment(m) ==
    LET start == parse_srt_time(m.start)
        end == parse_srt_time(m.end)
    IN  [kind |-> IF start.kind = "ok" /\ end.kind = "ok" THEN "ok" ELSE "ValueError",
         index |-> int(m.idx),
         start_ms |-> start.ms,
         end_ms |-> end.ms,
         duration_ms |-> end.ms - start.ms,
         text |-> CleanText(m.text)]

StripKind(seg) ==
    [index |-> seg.index, start_ms |-> seg.start_ms, end_ms |-> seg.end_ms,
     duration_ms |-> seg.duration_ms, text |-> seg.text]

parse_srt(srt_content) ==
    LET matches == findall(ReplaceCRLF(srt_content), 1)
        segs == [k \in 1..Len(matches) |-> Segment(matches[k])]
    IN  IF \E k \in 1..Len(segs) : segs[k].kind /= "ok"
        THEN [kind |-> "ValueError", segments |-> <<>>]
        ELSE [kind |-> "ok",
              segments |-> [k \in 1..Len(segs) |-> StripKind(segs[k])]]

(***************************************************************************)
(* Well-formed documents of the numbered dialect: per cue a number line,   *)
(* the timing line, one or more text lines and a blank line.               *)
(***************************************************************************)
\* a line break: "\n", or "\r\n" in a document written on Windows
Eol(crlf) ==
    IF crlf THEN <<CR, NL>> ELSE <<NL>>

RECURSIVE RenderLines(_, _)
RenderLines(lines, crlf) ==
    IF lines = <<>> THEN <<>>
    ELSE Head(lines) \o Eol(crlf) \o RenderLines(Tail(lines), crlf)

RenderCue(cue, crlf) ==
    cue.number \o Eol(crlf)
        \o <<Ts(cue.start[1], cue.start[2], cue.start[3], cue.start[4]), Arrow,
             Ts(cue.end[1], cue.end[2], cue.end[3], cue.end[4])>> \o Eol(crlf)
        \o RenderLines(cue.lines, crlf) \o Eol(crlf)

RECURSIVE Render(_, _)
Render(cues, crlf) ==
    IF cues = <<>> THEN <<>>
    ELSE RenderCue(Head(cues), crlf) \o Render(Tail(cues), crlf)

(***************************************************************************)
(* The other dialect names no cue number: per cue a timing line            *)
(* H:MM:SS.mmm,H:MM:SS.mmm, the text lines and a blank line.  Its          *)
(* timestamps are tokens of their own kind: they do not match              *)
(* \d{2}:\d{2}:\d{2},\d{3}.                                                *)
(***************************************************************************)
TsA(h, m, s, ms) ==
    [t |-> "tsa", c |-> "", ts |-> <<h, m, s, ms>>]

RenderCueA(cue, crlf) ==
    <<TsA(cue.start[1], cue.start[2], cue.start[3], cue.start[4]), Ch(","),
      TsA(cue.end[1], cue.end[2], cue.end[3], cue.end[4])>> \o Eol(crlf)
        \o RenderLines(cue.lines, crlf) \o Eol(crlf)

RECURSIVE RenderA(_, _)
RenderA(cues, crlf) ==
    IF cues = <<>> THEN <<>>
    ELSE RenderCueA(Head(cues), crlf) \o RenderA(Tail(cues), crlf)

(***************************************************************************)
(* SpecParse: one call of parse_srt on a well-formed document, or of       *)
(* parse_srt_time on a timestamp the cue pattern accepts.                  *)
(***************************************************************************)
\* documents under test hold at most MaxParseCues cues ...
MaxParseCues ==
    2
\* ... of at most MaxLines text lines each
MaxLines ==
    2

ParseNumbers ==
    {<<Dg("1")>>, <<Dg("1"), Dg("2")>>}

ParseTimings ==
    {<<<<0, 0, 0, 0>>, <<0, 0, 2, 0>>>>, <<<<1, 2, 3, 456>>, <<1, 2, 3, 456>>>>}

\* "hi", "a7", "7a"
ParseLines ==
    {<<Ch("h"), Ch("i")>>, <<Ch("a"), Dg("7")>>, <<Dg("7"), Ch("a")>>}

ParseCues ==
    {[number |-> n, start |-> t[1], end |-> t[2], lines |-> ls] :
        n \in ParseNumbers, t \in ParseTimings,
        ls \in UNION {[1..k -> ParseLines] : k \in 1..MaxLines}}

ParseDocs ==
    UNION {[1..k -> ParseCues] : k \in 0..MaxParseCues}

\* two-digit hours, minutes and seconds, three-digit milliseconds
ParseTimestamps ==
    {<<h, m, s, ms>> : h \in {0, 1, 23, 24, 99}, m \in {0, 2, 59, 60, 99},
                       s \in {0, 3, 59, 60, 61, 62, 99}, ms \in {0, 456, 999}}

NoCues ==
    <<>>

InitParse ==
    /\ RunIdle
    /\ \/ call \in [fn : {"none"}, arg : {"document"}, dialect : {"A", "B"},
                    cues : ParseDocs, crlf : BOOLEAN, ts : {NoTs}]
       \/ call \in [fn : {"none"}, arg : {"timestamp"}, dialect : {"B"},
                    cues : {NoCues}, crlf : {FALSE}, ts : ParseTimestamps]
    /\ ret = [kind |-> "pending"]

CallParseSrt ==
    /\ call.fn = "none"
    /\ call.arg = "document"
    /\ call' = [call EXCEPT !.fn = "parse_srt"]
    /\ ret' = parse_srt(IF call.dialect = "A" THEN RenderA(call.cues, call.crlf)
                        ELSE Render(call.cues, call.crlf))
    /\ UNCHANGED run_vars

CallParseSrtTime ==
    /\ call.fn = "none"
    /\ call.arg = "timestamp"
    /\ call' = [call EXCEPT !.fn = "parse_srt_time"]
    /\ ret' = parse_srt_time(call.ts)
    /\ UNCHANGED run_vars

NextParse ==
    \/ CallParseSrt
    \/ CallParseSrtTime

SpecParse ==
    InitParse /\ [][NextParse]_vars

\* what the cue says: its lines joined by single spaces
RECURSIVE JoinLines(_)
JoinLines(lines) ==
    IF lines = <<>> THEN <<>>
    ELSE [p \in 1..Len(Head(lines)) |-> Head(lines)[p].c]
             \o (IF Tail(lines) = <<>> THEN <<>> ELSE <<" ">>)
             \o JoinLines(Tail(lines))

Millis(ts) ==
    ts[1] * 3600000 + ts[2] * 60000 + ts[3] * 1000 + ts[4]

ExpectedSegment(cue, k, dialect) ==
    [index |-> IF dialect = "B" THEN int(cue.number) ELSE k,
     start_ms |-> Millis(cue.start),
     end_ms |-> Millis(cue.end),
     duration_ms |-> Millis(cue.end) - Millis(cue.start),
     text |-> JoinLines(cue.lines)]

SameButIndex(a, b) ==
    /\ a.start_ms = b.start_ms
    /\ a.end_ms = b.end_ms
    /\ a.duration_ms = b.duration_ms
    /\ a.text = b.text

\* C9: for every well-formed document of either dialect, parse_srt returns
\* one segment per cue, in document order, with duration_ms = end_ms -
\* start_ms and the text of the cue, its lines joined by single spaces.
C9_ParsesEveryCue ==
    call.fn = "parse_srt"
        => /\ ret.kind = "ok"
           /\ Len(ret.segments) = Len(call.cues)
           /\ \A k \in 1..Len(ret.segments) :
                  /\ ret.segments[k].duration_ms
                         = ret.segments[k].end_ms - ret.segments[k].start_ms
                  /\ SameButIndex(ret.segments[k],
                                  ExpectedSegment(call.cues[k], k, call.dialect))

\* C9 on the numbered dialect alone: the text of a cue is cut short
C9_NumberedDialect ==
    (call.fn = "parse_srt" /\ call.dialect = "B")
        => /\ ret.kind = "ok"
           /\ Len(ret.segments) = Len(call.cues)
           /\ \A k \in 1..Len(ret.segments) :
                  ret.segments[k] = ExpectedSegment(call.cues[k], k, "B")

\* C10: for every timestamp the cue pattern accepts, parse_srt_time returns
\* h*3600000 + m*60000 + s*1000 + ms and does not raise.
C10_ConvertsEveryTimestamp ==
    call.fn = "parse_srt_time"
        => ret.kind = "ok" /\ ret.ms = Millis(call.ts)

\* where parse_srt_time does return, it returns the claimed value
C10_ValueWhenAccepted ==
    (call.fn = "parse_srt_time" /\ ret.kind = "ok") => ret.ms = Millis(call.ts)

(***************************************************************************)
(* The run: the handler of the start button, lines 151-268.                *)
(***************************************************************************)
\* a document of a run holds at most MaxCues cues
MaxCues ==
    2
\* at most MaxFiles documents are uploaded
MaxFiles ==
    2

\* the slider of line 132
slider_min ==
    1

slider_max ==
    5

\* line 180
chunk_limit_ms ==
    10 * 60 * 1000

\* the times of a run's cues: 0, 2 ms, 10 min
RunTimes ==
    {<<0, 0, 0, 0>>, <<0, 0, 0, 2>>, <<0, 10, 0, 0>>}

\* the timings of a well-formed cue: it ends after it starts, or it is the
\* cue of no duration at 0
RunTimings ==
    {t \in RunTimes \X RunTimes :
        Millis(t[1]) < Millis(t[2]) \/ (t[1] = <<0, 0, 0, 0>> /\ t[2] = t[1])}

DigitOf(n) ==
    CASE n = 1 -> "1" [] n = 2 -> "2" [] n = 3 -> "3" [] n = 4 -> "4"
      [] n = 5 -> "5" [] n = 6 -> "6" [] n = 7 -> "7" [] n = 8 -> "8"
      [] n = 9 -> "9"

\* the cues of a document: numbered 1, 2, ..., or all numbered 1
RunCues(timings, numbered) ==
    [k \in 1..Len(timings) |->
        [number |-> <<Dg(DigitOf(IF numbered THEN k ELSE 1))>>,
         start |-> timings[k][1],
         end |-> timings[k][2],
         lines |-> <<<<Ch("a")>>>>]]

\* a document with an hour field strptime refuses
BadTimeDoc ==
    RunCues(<<<<<<24, 0, 0, 0>>, <<24, 0, 0, 2>>>>>>, TRUE)

\* a document whose only cue begins after 25 minutes
LateCueDoc ==
    RunCues(<<<<<<0, 25, 0, 0>>, <<0, 25, 0, 2>>>>>>, TRUE)

\* a document without any cue
NoCueDoc ==
    <<>>

\* a document whose two cues carry the same cue number
SameNumberDoc ==
    RunCues(<<<<<<0, 0, 0, 0>>, <<0, 0, 0, 2>>>>, <<<<0, 0, 0, 2>>, <<0, 10, 0, 0>>>>>>,
            FALSE)

\* the uploaded documents, each as its cues; its text is Render of them
RunDocs ==
    {RunCues(ts, TRUE) : ts \in UNION {[1..n -> RunTimings] : n \in 0..MaxCues}}
        \cup {BadTimeDoc, LateCueDoc, NoCueDoc, SameNumberDoc}

OneCueDoc ==
    RunCues(<<<<<<0, 0, 0, 0>>, <<0, 0, 0, 2>>>>>>, TRUE)

\* uploaded_file.getvalue().decode("utf-8")
getvalue(uploaded_file) ==
    Render(uploaded_file, FALSE)

RunUploads ==
    {<<d>> : d \in RunDocs}
        \cup UNION {[1..n -> {OneCueDoc, NoCueDoc}] : n \in 2..MaxFiles}

\* what the speech service returns for a text: BlockMs of loud audio
SpokenClip ==
    [samples |-> FromBlocks(<<TRUE>>), pad |-> 0]

\* response.content of call k, or None
Content(k, text) ==
    [present |-> TRUE, task |-> k, text |-> text, audio |-> SpokenClip]

None ==
    [present |-> FALSE, task |-> 0, text |-> <<>>, audio |-> silent(0)]

\* response.content of a status 200 without a body: b"", which line 217 takes
\* for absent as it does None
EmptyBytes(k, text) ==
    [present |-> FALSE, task |-> k, text |-> text, audio |-> silent(0)]

\* the outcomes of requests.post: status 200 with speech, status 200 with an
\* empty body, another status, an exception (a timeout among them)
Responses ==
    {"200", "200 empty", "error status", "exception"}

\* a worker that returns its result without the index of its segment
generate_audio_taskUnlabelled(params, k, response) ==
    IF response = "200" THEN <<0, Content(k, params[1])>>
    ELSE <<0, None>>

\* lines 42-67; params = (text, voice_id, api_key, segment_idx), k names the call
generate_audio_task(params, k, response) ==
    IF response = "200" THEN <<params[4], Content(k, params[1])>>
    ELSE IF response = "200 empty" THEN <<params[4], EmptyBytes(k, params[1])>>
    ELSE <<params[4], None>>

\* AudioSegment.from_file(io.BytesIO(audio_data), format="mp3")
from_file(audio_data) ==
    audio_data.audio

\* a piece appended to the chunk: the silence before a clip, or the clip of
\* the segment at document position pos, made of the content of call src
Piece(kind, pos, src, audio) ==
    [kind |-> kind, pos |-> pos, src |-> src, audio |-> audio]

RECURSIVE ChunkLen(_)
\* len(current_chunk_audio)
ChunkLen(pieces) ==
    IF pieces = <<>> THEN 0
    ELSE AudioLen(Head(pieces).audio) + ChunkLen(Tail(pieces))

\* line 190
batch_size ==
    max_workers

\* line 191
total_segments ==
    Len(parsed_segments)

\* line 194
batch_segments ==
    SubSeq(parsed_segments, i + 1, Min(i + batch_size, total_segments))

\* lines 197-200
tasks ==
    [k \in 1..Len(batch_segments) |->
        <<batch_segments[k].text, "voice_id", "api_key", batch_segments[k].index>>]

\* batch_results[idx] = audio_bytes
DictSet(d, key, value) ==
    {e \in d : e[1] /= key} \cup {<<key, value>>}

\* batch_results.get(idx)
DictGet(d, key) ==
    IF \E e \in d : e[1] = key THEN (CHOOSE e \in d : e[1] = key)[2] ELSE None

NotReturned ==
    [done |-> FALSE, result |-> <<0, None>>]

\* lines 214-215
SilenceGap(seg, last_end_ms) ==
    IF seg.start_ms - last_end_ms < 0 THEN 0 ELSE seg.start_ms - last_end_ms

\* a check that lets a chunk of exactly the limit grow on
ChunkIsFullStrict(pieces) ==
    ChunkLen(pieces) > chunk_limit_ms

\* line 229
ChunkIsFull(pieces) ==
    ChunkLen(pieces) >= chunk_limit_ms

\* a reassembly that takes the results as they arrived
ReassemblyTurnAsCompleted(k) ==
    completion_order[k]

\* line 210: the k-th iteration of the reassembly loop takes the k-th segment
\* of the batch
ReassemblyTurn(k) ==
    k

\* a check that takes an absent result for audio
TruthyAlways(audio_data) ==
    TRUE

\* line 217: if audio_data
Truthy(audio_data) ==
    audio_data.present

\* a map that yields a result before its call has ended
MapYieldsEarly(k) ==
    TRUE

\* line 205: executor.map yields the result of task k once its call has ended
MapYields(k) ==
    returned[k].done

\* a leftover that is kept only when it has reached the limit
HasLeftoverAtLimit(pieces) ==
    ChunkLen(pieces) >= chunk_limit_ms

\* line 244
HasLeftover(pieces) ==
    ChunkLen(pieces) > 0

\* line 158
TooManyFiles ==
    Len(uploaded_files) > 1

Init ==
    /\ pc = "idle"
    /\ uploaded_files \in RunUploads
    /\ voice_id_blank \in BOOLEAN
    /\ max_workers \in slider_min..slider_max
    /\ file_idx = 0
    /\ parsed_segments = <<>>
    /\ i = 0
    /\ inflight = {}
    /\ returned = <<>>
    /\ collected = 0
    /\ batch_results = {}
    /\ seg_k = 0
    /\ current_chunk_audio = <<>>
    /\ parts_buffer = <<>>
    /\ last_segment_end_ms = 0
    /\ part_number = 1
    /\ generated_zips = <<>>
    /\ errors = <<>>
    /\ completion_order = <<>>
    /\ assembled = <<>>
    /\ call = NoCall
    /\ ret = NoRet

\* lines 152-165: the two guards, then the loop over the files begins
Click ==
    /\ pc = "idle"
    /\ IF voice_id_blank
       THEN /\ errors' = Append(errors, [file |-> 0, msg |-> "no voice id"])
            /\ pc' = "stopped"
            /\ UNCHANGED <<generated_zips, file_idx>>
       ELSE IF TooManyFiles
       THEN /\ errors' = Append(errors, [file |-> 0, msg |-> "one file at a time"])
            /\ pc' = "stopped"
            /\ UNCHANGED <<generated_zips, file_idx>>
       ELSE /\ generated_zips' = <<>>
            /\ file_idx' = 1
            /\ pc' = "file"
            /\ UNCHANGED errors
    /\ UNCHANGED <<uploaded_files, voice_id_blank, max_workers, parsed_segments, i,
                   inflight, returned, collected, batch_results, seg_k,
                   current_chunk_audio, parts_buffer, last_segment_end_ms,
                   part_number, completion_order, assembled, fn_vars>>

\* lines 167-191: the next file is parsed; without cues it is reported and
\* skipped; a ValueError of parse_srt_time ends the run
NextFile ==
    /\ pc = "file"
    /\ file_idx <= Len(uploaded_files)
    /\ LET parsed == parse_srt(getvalue(uploaded_files[file_idx]))
       IN  IF parsed.kind /= "ok"
           THEN /\ pc' = "crashed"
                /\ UNCHANGED <<file_idx, parsed_segments, errors, i,
                               current_chunk_audio, parts_buffer,
                               last_segment_end_ms, part_number,
                               completion_order, assembled>>
           ELSE IF parsed.segments = <<>>
           THEN /\ errors' = Append(errors, [file |-> file_idx, msg |-> "unreadable"])
                /\ file_idx' = file_idx + 1
                /\ UNCHANGED <<pc, parsed_segments, i, current_chunk_audio,
                               parts_buffer, last_segment_end_ms, part_number,
                               completion_order, assembled>>
           ELSE /\ parsed_segments' = parsed.segments
                /\ current_chunk_audio' = <<>>
                /\ parts_buffer' = <<>>
                /\ last_segment_end_ms' = 0
                /\ part_number' = 1
                /\ i' = 0
                /\ completion_order' = <<>>
                /\ assembled' = <<>>
                /\ pc' = "batch"
                /\ UNCHANGED <<file_idx, errors>>
    /\ UNCHANGED <<uploaded_files, voice_id_blank, max_workers, inflight, returned,
                   collected, batch_results, seg_k, generated_zips, fn_vars>>

\* lines 193-205: the calls of the batch are handed to the pool, which has
\* max_workers threads for the at most max_workers tasks of a batch, so every
\* call of the batch is running at once
StartBatch ==
    /\ pc = "batch"
    /\ i < total_segments
    /\ inflight' = 1..Len(batch_segments)
    /\ returned' = [k \in 1..Len(batch_segments) |-> NotReturned]
    /\ collected' = 0
    /\ batch_results' = {}
    /\ completion_order' = <<>>
    /\ pc' = "fetch"
    /\ UNCHANGED <<uploaded_files, voice_id_blank, max_workers, file_idx,
                   parsed_segments, i, seg_k, current_chunk_audio, parts_buffer,
                   last_segment_end_ms, part_number, generated_zips, errors,
                   assembled, fn_vars>>

\* a worker's call ends: generate_audio_task returns
WorkerReturn(k, response) ==
    /\ pc = "fetch"
    /\ k \in inflight
    /\ inflight' = inflight \ {k}
    /\ returned' = [returned EXCEPT ![k] =
                        [done |-> TRUE,
                         result |-> generate_audio_task(tasks[k], i + k, response)]]
    /\ completion_order' = Append(completion_order, k)
    /\ UNCHANGED <<pc, uploaded_files, voice_id_blank, max_workers, file_idx,
                   parsed_segments, i, collected, batch_results, seg_k,
                   current_chunk_audio, parts_buffer, last_segment_end_ms,
                   part_number, generated_zips, errors, assembled, fn_vars>>

\* lines 205-207: executor.map yields the next result, in the order of the
\* tasks; after the last one the pool is shut down and reassembly begins
CollectResult ==
    /\ pc = "fetch"
    /\ collected < Len(batch_segments)
    /\ MapYields(collected + 1)
    /\ LET result == returned[collected + 1].result
       IN  batch_results' = DictSet(batch_results, result[1], result[2])
    /\ collected' = collected + 1
    /\ IF collected + 1 = Len(batch_segments)
       THEN pc' = "assemble" /\ seg_k' = 1
       ELSE UNCHANGED <<pc, seg_k>>
    /\ UNCHANGED <<uploaded_files, voice_id_blank, max_workers, file_idx,
                   parsed_segments, i, inflight, returned, current_chunk_audio,
                   parts_buffer, last_segment_end_ms, part_number, generated_zips,
                   errors, completion_order, assembled, fn_vars>>

\* lines 229-237 on the chunk as it stands after the append
FlushCheck(chunk, placed_end_ms, entry) ==
    /\ last_segment_end_ms' = placed_end_ms
    /\ IF ChunkIsFull(chunk)
       THEN /\ parts_buffer' = Append(parts_buffer,
                                      [part |-> part_number, audio |-> chunk])
            /\ current_chunk_audio' = <<>>
            /\ part_number' = part_number + 1
       ELSE /\ current_chunk_audio' = chunk
            /\ UNCHANGED <<parts_buffer, part_number>>
    /\ assembled' = Append(assembled,
                           [entry EXCEPT !.peak = ChunkLen(chunk),
                                         !.after = ChunkLen(current_chunk_audio'),
                                         !.parts = Len(parts_buffer'),
                                         !.part_number = part_number'])
    /\ IF seg_k = Len(batch_segments)
       THEN i' = i + batch_size /\ pc' = "batch" /\ UNCHANGED seg_k
       ELSE seg_k' = seg_k + 1 /\ UNCHANGED <<i, pc>>

\* lines 210-241: one iteration of the reassembly loop
AssembleSegment ==
    /\ pc = "assemble"
    /\ LET turn == ReassemblyTurn(seg_k)
           seg == batch_segments[turn]
           audio_data == DictGet(batch_results, seg.index)
           silence_gap == SilenceGap(seg, last_segment_end_ms)
           entry == [pos |-> i + turn, gap |-> silence_gap,
                     fetched |-> returned[turn].result[2].present,
                     placed |-> audio_data.present, src |-> audio_data.task,
                     cursor |-> last_segment_end_ms,
                     before |-> ChunkLen(current_chunk_audio),
                     clip_ms |-> 0, clip |-> silent(0), peak |-> 0, after |-> 0,
                     parts |-> 0, part_number |-> 0]
       IN  IF Truthy(audio_data)
           THEN \E outcome \in OutcomesFor(from_file(audio_data)) :
                    LET synced == match_target_duration(from_file(audio_data),
                                                        seg.duration_ms, outcome)
                    IN  IF synced.kind /= "ok"
                        THEN /\ pc' = "crashed"
                             /\ UNCHANGED <<i, seg_k, current_chunk_audio,
                                            parts_buffer, last_segment_end_ms,
                                            part_number, assembled>>
                        ELSE FlushCheck(
                                 current_chunk_audio
                                     \o <<Piece("gap", i + turn, 0, silent(silence_gap)),
                                          Piece("clip", i + turn, audio_data.task,
                                                synced.audio)>>,
                                 seg.end_ms,
                                 [entry EXCEPT !.clip_ms = AudioLen(synced.audio),
                                               !.clip = synced.audio])
           ELSE FlushCheck(current_chunk_audio, last_segment_end_ms, entry)
    /\ UNCHANGED <<uploaded_files, voice_id_blank, max_workers, file_idx,
                   parsed_segments, inflight, returned, collected, batch_results,
                   generated_zips, errors, completion_order, fn_vars>>

\* lines 243-266: the leftover chunk becomes the last part, the parts are
\* zipped, and the loop goes to the next file
FinishFile ==
    /\ pc = "batch"
    /\ i >= total_segments
    /\ LET parts == IF HasLeftover(current_chunk_audio)
                    THEN Append(parts_buffer, [part |-> part_number,
                                               audio |-> current_chunk_audio])
                    ELSE parts_buffer
       IN  /\ parts_buffer' = parts
           /\ generated_zips' = Append(generated_zips,
                                       [file |-> file_idx, parts |-> parts])
    /\ current_chunk_audio' = <<>>
    /\ file_idx' = file_idx + 1
    /\ pc' = "file"
    /\ UNCHANGED <<uploaded_files, voice_id_blank, max_workers, parsed_segments, i,
                   inflight, returned, collected, batch_results, seg_k,
                   last_segment_end_ms, part_number, errors, completion_order,
                   assembled, fn_vars>>

\* line 268: every file has been handled
FinishRun ==
    /\ pc = "file"
    /\ file_idx > Len(uploaded_files)
    /\ pc' = "done"
    /\ UNCHANGED <<uploaded_files, voice_id_blank, max_workers, file_idx,
                   parsed_segments, i, inflight, returned, collected, batch_results,
                   seg_k, current_chunk_audio, parts_buffer, last_segment_end_ms,
                   part_number, generated_zips, errors, completion_order, assembled,
                   fn_vars>>

Next ==
    \/ Click
    \/ NextFile
    \/ StartBatch
    \/ \E k \in 1..slider_max, response \in Responses : WorkerReturn(k, response)
    \/ CollectResult
    \/ AssembleSegment
    \/ FinishFile
    \/ FinishRun

Spec ==
    Init /\ [][Next]_vars

(***************************************************************************)
(* The track of a file: its finished parts, then the current chunk.        *)
(***************************************************************************)
RECURSIVE PartsPieces(_)
PartsPieces(parts) ==
    IF parts = <<>> THEN <<>>
    ELSE Head(parts).audio \o PartsPieces(Tail(parts))

Track ==
    PartsPieces(parts_buffer) \o current_chunk_audio

\* where piece j of the track begins
Offset(pieces, j) ==
    ChunkLen(SubSeq(pieces, 1, j - 1))

Clips(pieces) ==
    {j \in 1..Len(pieces) : pieces[j].kind = "clip"}

\* no sample of [from, to) of the track is loud
SilentOver(pieces, from, to) ==
    \A j \in 1..Len(pieces) : \A q \in 1..Len(pieces[j].audio.samples) :
        pieces[j].audio.samples[q]
            => ~(from <= Offset(pieces, j) + q - 1 /\ Offset(pieces, j) + q - 1 < to)

PartLen(j) ==
    ChunkLen(parts_buffer[j].audio)

\* the run is over and its one document, which holds cues, went through
FileDone ==
    pc = "done" /\ Len(uploaded_files) = 1 /\ assembled /= <<>>

\* the cues ascend and do not overlap
Ascending ==
    \A k \in 1..(Len(parsed_segments) - 1) :
        parsed_segments[k].end_ms <= parsed_segments[k + 1].start_ms

AllFetched ==
    \A n \in 1..Len(assembled) : assembled[n].fetched

\* C2: at every concurrency level, whatever the order in which the calls of a
\* batch end and whichever of them fail, the clips stand in the track in the
\* document order of their segments.
C2_ClipsInDocumentOrder ==
    \A a, b \in Clips(Track) : a < b => Track[a].pos < Track[b].pos

\* the second call of a batch ended first, and both clips are in the track
C2_Witness ==
    /\ completion_order = <<2, 1>>
    /\ Cardinality(Clips(Track)) = 2
    /\ pc = "batch"

\* C3: when the call of a segment fails, the run goes on and the finished
\* output holds silence over the whole of [start_ms, end_ms) of that segment.
C3_FailedSegmentIsSilence ==
    FileDone
        => \A n \in 1..Len(assembled) :
               ~assembled[n].fetched
                   => LET seg == parsed_segments[assembled[n].pos]
                      IN  /\ ChunkLen(Track) >= seg.end_ms
                          /\ SilentOver(Track, seg.start_ms, seg.end_ms)

\* every segment's clip begins at start_ms, the silence before it fills the
\* time since the end of the segment before, and the track reaches the last end
PlacedAtOffsets ==
    /\ \A k \in 1..Len(parsed_segments) :
           \E j \in Clips(Track) :
               /\ Track[j].pos = k
               /\ Offset(Track, j) = parsed_segments[k].start_ms
               /\ j > 1
               /\ Track[j - 1].kind = "gap"
               /\ Offset(Track, j - 1)
                      = (IF k = 1 THEN 0 ELSE parsed_segments[k - 1].end_ms)
    /\ ChunkLen(Track) >= parsed_segments[Len(parsed_segments)].end_ms

\* C4: for ascending cues that do not overlap, every call succeeding, each
\* clip begins at its start_ms in the concatenation of the parts, the silence
\* between two cues fills exactly [previous end_ms, next start_ms), and the
\* output is at least as long as the last end_ms.
C4_ClipsAtTheirOffsets ==
    (FileDone /\ Ascending /\ AllFetched) => PlacedAtOffsets

\* C4 does hold of the runs in which every reconciled clip has the length of
\* its segment
C4_WhenClipsHaveTargetLength ==
    (/\ FileDone /\ Ascending /\ AllFetched
     /\ \A n \in 1..Len(assembled) :
            assembled[n].clip_ms = parsed_segments[assembled[n].pos].duration_ms)
        => PlacedAtOffsets

\* C5: whenever the chunk has reached chunk_limit_ms after a segment, the
\* whole chunk becomes one part, the chunk is empty afterwards and part_number
\* has grown by one; otherwise nothing is emitted.  At the end of the document
\* a non-empty leftover is the last part.  So no part is empty and every part
\* but the last is at least chunk_limit_ms long.
C5_ChunkFlushing ==
    /\ \A n \in 1..Len(assembled) :
           LET e == assembled[n]
               parts_before == IF n = 1 THEN 0 ELSE assembled[n - 1].parts
               number_before == IF n = 1 THEN 1 ELSE assembled[n - 1].part_number
           IN  IF e.peak >= chunk_limit_ms
               THEN /\ e.after = 0
                    /\ e.parts = parts_before + 1
                    /\ e.part_number = number_before + 1
                    /\ PartLen(e.parts) = e.peak
               ELSE /\ e.after = e.peak
                    /\ e.parts = parts_before
                    /\ e.part_number = number_before
    /\ \A j \in 1..Len(parts_buffer) :
           /\ PartLen(j) > 0
           /\ (j < Len(parts_buffer) \/ pc \in {"fetch", "assemble", "batch"})
                  => PartLen(j) >= chunk_limit_ms
    /\ (pc \in {"file", "done"} /\ assembled /= <<>>)
           => LET last == assembled[Len(assembled)]
              IN  /\ generated_zips[1].parts = parts_buffer
                  /\ IF last.after > 0
                     THEN /\ Len(parts_buffer) = last.parts + 1
                          /\ PartLen(Len(parts_buffer)) = last.after
                     ELSE Len(parts_buffer) = last.parts

\* a full part was flushed and the leftover became the last part
C5_Witness ==
    /\ pc = "done"
    /\ Len(parts_buffer) = 2
    /\ PartLen(1) >= chunk_limit_ms
    /\ PartLen(2) < chunk_limit_ms
    /\ part_number = 2

\* a ceiling that depends on the chunk limit alone
ChunkCeiling ==
    2 * chunk_limit_ms

\* C6: in every state of a run the current chunk is no longer than a ceiling
\* that depends on the chunk limit alone, not on the document.
C6_ChunkUnderCeiling ==
    /\ ChunkLen(current_chunk_audio) <= ChunkCeiling
    /\ \A n \in 1..Len(assembled) : assembled[n].peak <= ChunkCeiling

\* what does hold: a chunk is under the limit when a segment is taken up
C6_UnderLimitBeforeAppend ==
    \A n \in 1..Len(assembled) : assembled[n].before < chunk_limit_ms

\* C7: a segment that starts before the end of the segment preceding it in
\* the document gets a gap of 0 before its clip, and no gap is negative.
C7_GapClamped ==
    \A n \in 1..Len(assembled) :
        LET e == assembled[n]
        IN  /\ e.gap >= 0
            /\ (/\ e.placed
                /\ e.pos > 1
                /\ parsed_segments[e.pos].start_ms < parsed_segments[e.pos - 1].end_ms)
                   => e.gap = 0

\* C7 does hold of the segments whose predecessor was placed, and in general
\* against last_segment_end_ms
C7_AgainstLastPlaced ==
    \A n \in 1..Len(assembled) :
        LET e == assembled[n]
            start_ms == parsed_segments[e.pos].start_ms
        IN  /\ e.gap >= 0
            /\ start_ms < e.cursor => e.gap = 0
            /\ (e.pos > 1 /\ n > 1 /\ assembled[n - 1].placed
                /\ start_ms < parsed_segments[e.pos - 1].end_ms) => e.gap = 0

\* document f parses to at least one cue
HasCues(f) ==
    LET parsed == parse_srt(getvalue(uploaded_files[f]))
    IN  parsed.kind = "ok" /\ parsed.segments /= <<>>

\* document f parses to no cue
HasNoCue(f) ==
    parse_srt(getvalue(uploaded_files[f])) = [kind |-> "ok", segments |-> <<>>]

HasOutput(f) ==
    \E z \in 1..Len(generated_zips) : generated_zips[z].file = f

Reported(f) ==
    \E n \in 1..Len(errors) : errors[n] = [file |-> f, msg |-> "unreadable"]

\* C8: of N >= 1 documents, each one that parses to at least one cue gets its
\* output, each one without a cue is reported and skipped, and no document
\* keeps the following ones from being processed.
C8_EveryDocumentProcessed ==
    (pc \in {"done", "stopped", "crashed"} /\ ~voice_id_blank)
        => \A f \in 1..Len(uploaded_files) :
               /\ HasCues(f) => HasOutput(f)
               /\ HasNoCue(f) => Reported(f)

\* what the handler does: with more than one document the run is refused
\* before any document is read and nothing is produced; a single document
\* without a cue is reported and skipped and the run finishes with no output;
\* a single document with cues gets exactly one output when the run finishes,
\* and none when parse_srt_time or match_target_duration raises.
C8_OneDocumentPerRun ==
    /\ (Len(uploaded_files) > 1 /\ ~voice_id_blank)
           => /\ pc \in {"idle", "stopped"}
              /\ file_idx = 0
              /\ generated_zips = <<>>
              /\ pc = "stopped"
                     => errors = <<[file |-> 0, msg |-> "one file at a time"]>>
    /\ (Len(uploaded_files) = 1 /\ ~voice_id_blank)
           => /\ pc /= "stopped"
              /\ pc = "done"
                     => IF HasCues(1)
                        THEN /\ Len(generated_zips) = 1
                             /\ generated_zips[1].file = 1
                             /\ errors = <<>>
                        ELSE /\ HasNoCue(1)
                             /\ generated_zips = <<>>
                             /\ errors = <<[file |-> 1, msg |-> "unreadable"]>>
              /\ pc = "crashed" => generated_zips = <<>> /\ errors = <<>>

\* a single document with cues went through and has its output
C8_Witness ==
    /\ pc = "done"
    /\ Len(uploaded_files) = 1
    /\ HasCues(1)
    /\ HasOutput(1)

\* the other ways a run ends are reached too
C8_RefusedReached ==
    ~(pc = "stopped" /\ Len(uploaded_files) > 1 /\ ~voice_id_blank)

C8_SkippedReached ==
    ~(pc = "done" /\ HasNoCue(1) /\ Reported(1))

C8_RaisedReached ==
    ~(pc = "crashed" /\ HasCues(1))

(***************************************************************************)
(* Termination of a run.  Every call of requests.post ends, by its timeout *)
(* of 30 s if the service does not answer, and the controlling flow keeps  *)
(* running: a run goes on for as long as one of its steps can be taken.    *)
(***************************************************************************)
NoEmptyCue ==
    \A k \in 1..Len(parsed_segments) : parsed_segments[k].duration_ms > 0

\* a step of the run can be taken: the next file or the end of the files, the
\* next batch or the end of the batches, the end of a call, the next result
\* of executor.map, the next iteration of the reassembly loop
RunCanStep ==
    \/ pc \in {"file", "batch", "assemble"}
    \/ /\ pc = "fetch"
       /\ \/ inflight /= {}
          \/ collected < Len(batch_segments) /\ MapYields(collected + 1)

\* C11: whatever the outcome of each synthesis call, the run of a parsed
\* document goes through every batch, emits its output and finishes: it does
\* not come to rest before that.
C11_RunFinishes ==
    (parsed_segments /= <<>> /\ ~RunCanStep) => (pc = "done" /\ HasOutput(1))

\* what does hold: no call stalls the run, which comes to rest only when it
\* has finished or an exception has ended it ...
C11_NeverStalls ==
    (parsed_segments /= <<>> /\ ~RunCanStep) => pc \in {"done", "crashed"}

\* ... and only a cue of duration 0 ends it by an exception
C11_FinishesWhenNoCueIsEmpty ==
    (parsed_segments /= <<>> /\ ~RunCanStep /\ NoEmptyCue)
        => (pc = "done" /\ HasOutput(1))

\* the steps a run has left at most
RunMeasure ==
    LET rest == total_segments - i
    IN  CASE pc = "idle" -> 4 * MaxCues + MaxFiles + 4
          [] pc = "file" -> IF file_idx <= Len(uploaded_files)
                            THEN 4 * MaxCues + MaxFiles + 4 - file_idx
                            ELSE 1
          [] pc = "batch" -> 2 + 4 * Max(0, rest)
          [] pc = "fetch" -> 1 + 4 * rest - collected
                                 - (Len(batch_segments) - Cardinality(inflight))
          [] pc = "assemble" -> 1 + 4 * rest - 2 * Len(batch_segments) - (seg_k - 1)
          [] OTHER -> 0

\* every step lowers the measure, which is never negative: no run goes on
\* for ever
C11_EveryStepLowersMeasure ==
    [][RunMeasure' < RunMeasure /\ RunMeasure' >= 0]_vars

(***************************************************************************)
(* The batch barrier and the workers.                                      *)
(***************************************************************************)
\* C13: no segment of a batch is reconciled or appended while a call of the
\* batch is in flight: when reassembly runs every call of the batch has ended
\* and been collected, and while calls are in flight exactly the segments of
\* the batches before have been through reassembly, all of them.
C13_BatchBarrier ==
    /\ pc = "assemble"
           => /\ inflight = {}
              /\ \A k \in 1..Len(batch_segments) : returned[k].done
              /\ collected = Len(batch_segments)
              /\ Len(assembled) = i + seg_k - 1
    /\ (pc = "fetch" \/ inflight /= {})
           => /\ pc = "fetch"
              /\ Len(assembled) = i
    /\ \A n \in 1..Len(assembled) : assembled[n].pos = n

\* reassembly of a batch of two is under way, its second call having ended
\* before its first
C13_Witness ==
    /\ pc = "assemble"
    /\ seg_k = 2
    /\ completion_order = <<2, 1>>
    /\ Len(assembled) = 1

\* the state of the track
track_vars ==
    <<current_chunk_audio, last_segment_end_ms, part_number, parts_buffer>>

\* C14: a step in which a call ends changes nothing of the track, of the
\* collected results or of the other calls, and leaves for its own call the
\* pair of its segment's index and the content or nothing; the track changes
\* only in steps of the controlling flow, with no call in flight; at most
\* max_workers calls are in flight.
C14_TrackExclusive ==
    [][/\ Cardinality(inflight') <= max_workers
       /\ \A k \in inflight :
              inflight' = inflight \ {k}
                  => /\ UNCHANGED track_vars
                     /\ UNCHANGED <<batch_results, collected, generated_zips>>
                     /\ \A j \in 1..Len(returned) :
                            j /= k => returned'[j] = returned[j]
                     /\ returned'[k].done
                     /\ returned'[k].result[1] = batch_segments[k].index
                     /\ returned'[k].result[2]
                            \in {None, EmptyBytes(i + k, batch_segments[k].text),
                                 Content(i + k, batch_segments[k].text)}
       /\ track_vars' /= track_vars
              => inflight = {} /\ inflight' = {} /\ pc \in {"file", "assemble", "batch"}
      ]_vars

\* one call of a batch of two has ended while the other is in flight
C14_Witness ==
    /\ pc = "fetch"
    /\ max_workers = 2
    /\ inflight = {1}
    /\ Len(returned) = 2
    /\ returned[2].done
    /\ returned[2].result[2].present

\* no two cues of the document carry the same number
DistinctNumbers ==
    \A a, b \in 1..Len(parsed_segments) :
        a /= b => parsed_segments[a].index /= parsed_segments[b].index

\* C15: the audio placed for a segment is the result of the call issued for
\* that segment, and each result that holds audio is placed: also when two
\* cues of a batch carry the same number.
C15_OwnResultConsumed ==
    \A n \in 1..Len(assembled) :
        /\ assembled[n].placed = assembled[n].fetched
        /\ assembled[n].placed => assembled[n].src = assembled[n].pos

\* C15 does hold of the documents whose cue numbers differ
C15_WhenNumbersDiffer ==
    DistinctNumbers => C15_OwnResultConsumed

(***************************************************************************)
(* The cursor and the parts.                                               *)
(***************************************************************************)
SomePlaced ==
    \E n \in 1..Len(assembled) : assembled[n].placed

ClipsHaveTargetLength ==
    \A n \in 1..Len(assembled) :
        assembled[n].placed
            => assembled[n].clip_ms = parsed_segments[assembled[n].pos].duration_ms

\* C16: after every append last_segment_end_ms is the length of all audio
\* appended so far, the parts and the current chunk together, and the append
\* moved it by exactly the gap and the length of the clip: for every sequence
\* of cues.
C16_CursorIsTrackLength ==
    /\ SomePlaced => last_segment_end_ms = ChunkLen(Track)
    /\ \A n \in 1..Len(assembled) :
           assembled[n].placed
               => parsed_segments[assembled[n].pos].end_ms - assembled[n].cursor
                      = assembled[n].gap + assembled[n].clip_ms

\* C16 fails on overlapping cues also when every clip has its target length
C16_WhenClipsHaveTargetLength ==
    ClipsHaveTargetLength => C16_CursorIsTrackLength

\* C16 does hold of ascending cues whose clips have their target length
C16_WhenCuesAscend ==
    (Ascending /\ ClipsHaveTargetLength) => C16_CursorIsTrackLength

RECURSIVE Appends(_)
\* the pieces appended by the iterations of a log, in order
Appends(log) ==
    IF log = <<>> THEN <<>>
    ELSE LET e == Head(log)
         IN  (IF e.placed
              THEN <<Piece("gap", e.pos, 0, silent(e.gap)),
                     Piece("clip", e.pos, e.src, e.clip)>>
              ELSE <<>>) \o Appends(Tail(log))

RECURSIVE AppendedMs(_)
\* the sum of gap + len(clip) over the appends of a log
AppendedMs(log) ==
    IF log = <<>> THEN 0
    ELSE (IF Head(log).placed THEN Head(log).gap + Head(log).clip_ms ELSE 0)
             + AppendedMs(Tail(log))

RECURSIVE PartsMs(_)
PartsMs(parts) ==
    IF parts = <<>> THEN 0
    ELSE ChunkLen(Head(parts).audio) + PartsMs(Tail(parts))

HoldsAudio(piece) ==
    AudioLen(piece.audio) > 0

\* the audio of a sequence of pieces: its pieces of some length, in order
Audio(pieces) ==
    SelectSeq(pieces, HoldsAudio)

\* C19: the parts in the order of their numbers, followed by the current
\* chunk, are exactly the appends made so far, in order; at the end of the
\* run the parts of the output are all the appends, their lengths add up to
\* the sum of gap + len(clip), and they are numbered 1, 2, ..., k.
C19_Conservation ==
    /\ Audio(Track) = Audio(Appends(assembled))
    /\ \A j \in 1..Len(parts_buffer) : parts_buffer[j].part = j
    /\ (pc = "done" /\ generated_zips /= <<>>)
           => /\ Audio(PartsPieces(generated_zips[1].parts))
                     = Audio(Appends(assembled))
              /\ PartsMs(generated_zips[1].parts) = AppendedMs(assembled)
              /\ \A j \in 1..Len(generated_zips[1].parts) :
                     generated_zips[1].parts[j].part = j

\* a finished run that flushed a part between two appends and closed with a
\* leftover part
C19_Witness ==
    /\ pc = "done"
    /\ Len(assembled) = 2
    /\ assembled[1].placed /\ assembled[2].placed
    /\ assembled[1].parts = 1
    /\ Len(generated_zips[1].parts) = 2

\* line 211 for the segment the reassembly loop stands at
CurrentAudioData ==
    DictGet(batch_results, batch_segments[ReassemblyTurn(seg_k)].index)

\* C20: the iteration of a segment whose result is absent, None or empty,
\* changes none of the current chunk, last_segment_end_ms, part_number and
\* the finished parts; the chunk is shorter than chunk_limit_ms whenever the
\* loop takes up a segment, so the flush check after it emits nothing.
C20_FailedSegmentLeavesTrack ==
    /\ [](pc = "assemble" => ChunkLen(current_chunk_audio) < chunk_limit_ms)
    /\ [][(pc = "assemble" /\ ~CurrentAudioData.present /\ assembled' /= assembled)
              => UNCHANGED track_vars]_vars

\* after a placed segment, a segment whose call returned an empty body went
\* through the loop with audio in the chunk
C20_Witness ==
    /\ pc = "batch"
    /\ max_workers = 2
    /\ Len(assembled) = 2
    /\ assembled[1].placed
    /\ ~assembled[2].placed
    /\ assembled[2].before > 0
    /\ Len(returned) = 2
    /\ returned[2].result[2] = EmptyBytes(2, parsed_segments[2].text)

====
